---- MODULE Spec2Model ----
(***************************************************************************)
(* serverless-attach-managed-policy: the before:deploy:deploy hook that    *)
(* attaches the managed policy ARNs configured at                          *)
(* provider.managedPolicyArns to every AWS::IAM::Role of the compiled      *)
(* CloudFormation template.                                                *)
(*                                                                         *)
(* The repository holds two revisions of the plugin class:                 *)
(*   src/unnamed/part_000  validates and merges identifier by identifier,  *)
(*                         appending, logging one line per identifier;     *)
(*   src/lib/index.js      validates first (verifyConfig), then prepends   *)
(*                         the configured list and de-duplicates.          *)
(* Both are modelled; the variable rev says which one a behaviour runs.    *)
(* The hook is synchronous and single-threaded, so one invocation is one   *)
(* action.                                                                 *)
(***************************************************************************)
EXTENDS Naturals, Sequences, FiniteSets

VARIABLES rev, config, resources, log, status, errMsg, calls, pre, prevStatus

vars == <<rev, config, resources, log, status, errMsg, calls, pre, prevStatus>>

(* ------------------------------ bounds --------------------------------- *)

MaxConfigLen == 2

MaxExistingLen == 2

MaxResources == 2

MaxCalls == 2

(* ------------------------------ strings -------------------------------- *)
(* A string is kept as the pieces the pattern                              *)
(* /^arn:aws:iam::[0-9]+:policy\/.*$/ cuts it into: the text before the    *)
(* account, the account's characters, the text between account and         *)
(* remainder, and the remainder.                                           *)

Digits == {"0", "1", "2", "3", "4", "5", "6", "7", "8", "9"}

Str(p, a, m, r) == [pre |-> p, acct |-> a, mid |-> m, rest |-> r]

EmptyString == Str("", <<>>, "", "")

testPolicyArn0 == Str("arn:aws:iam::", <<"7", "8", "9">>, ":policy/", "someteam/MyManagedPolicy-3QUG1777293EJ")

testPolicyArn1 == Str("arn:aws:iam::", <<"7", "8", "9">>, ":policy/", "someteam/AnotherManagedPolicy-F6NZ1321293EJ")

notValidPolicyArn == Str("not-valid-policy-ARN", <<>>, "", "")

\* an AWS-managed policy: its account segment is no number
awsManagedPolicyArn == Str("arn:aws:iam::", <<"a", "w", "s">>, ":policy/", "AdministratorAccess")

\* policyArn.match(/^arn:aws:iam::[0-9]+:policy\/.*$/)
MatchesArn(s) ==
    /\ s.pre = "arn:aws:iam::"
    /\ Len(s.acct) >= 1
    /\ \A k \in 1..Len(s.acct) : s.acct[k] \in Digits
    /\ s.mid = ":policy/"

(* --------------------------- array helpers ----------------------------- *)

\* Array.prototype.indexOf, 1-based; 0 stands for -1
indexOf(arr, x) ==
    IF \E k \in 1..Len(arr) : arr[k] = x
    THEN CHOOSE k \in 1..Len(arr) : arr[k] = x /\ \A m \in 1..(k - 1) : arr[m] # x
    ELSE 0

RECURSIVE filterFirst(_, _)
\* .filter((elem, index, self) => index === self.indexOf(elem)), from index k on
filterFirst(self, k) ==
    IF k > Len(self) THEN <<>>
    ELSE IF indexOf(self, self[k]) = k
         THEN <<self[k]>> \o filterFirst(self, k + 1)
         ELSE filterFirst(self, k + 1)

SeqsUpTo(S, n) == UNION {[1..m -> S] : m \in 0..n}

(* ------------------------------ inputs --------------------------------- *)

RoleType == "AWS::IAM::Role"

OtherType == "AWS::IAM::User"

ConfiguredStrings == {testPolicyArn0, testPolicyArn1, notValidPolicyArn}

ExistingStrings == {testPolicyArn0, testPolicyArn1}

\* provider.managedPolicyArns: null, a string, an array of strings, or any
\* other value (an object, a number)
ConfigValues ==
    {[kind |-> "null", val |-> <<>>], [kind |-> "object", val |-> <<>>]}
    \cup {[kind |-> "string", val |-> <<s>>] :
                s \in ConfiguredStrings \cup {EmptyString, awsManagedPolicyArn}}
    \cup {[kind |-> "array", val |-> a] : a \in SeqsUpTo(ConfiguredStrings, MaxConfigLen)}

\* JavaScript truthiness of the configuration value
Truthy(c) ==
    \/ c.kind = "array"
    \/ c.kind = "object"
    \/ c.kind = "string" /\ c.val[1] # EmptyString

Resource(type, hasArns, arns) ==
    [Type |-> type, Path |-> "/", RoleName |-> 0,
     hasArns |-> hasArns, ManagedPolicyArns |-> arns]

ResourceShapes ==
    {Resource(RoleType, FALSE, <<>>)}
    \cup {Resource(RoleType, TRUE, a) : a \in SeqsUpTo(ExistingStrings, MaxExistingLen)}
    \cup {Resource(OtherType, FALSE, <<>>), Resource(OtherType, TRUE, <<testPolicyArn1>>)}

\* the entries in Object.keys order; RoleName is the entry's position
Named(entries) == [k \in 1..Len(entries) |-> [entries[k] EXCEPT !.RoleName = k]]

\* provider.compiledCloudFormationTemplate.Resources: null or a collection
ResourceCollections ==
    {[present |-> FALSE, entries |-> <<>>]}
    \cup {[present |-> TRUE, entries |-> Named(e)] : e \in SeqsUpTo(ResourceShapes, MaxResources)}

(* ------------------------------ log lines ------------------------------ *)

Line(text) == [kind |-> text, arn |-> EmptyString, role |-> 0]

Event(kind, arn, roleName) == [kind |-> kind, arn |-> arn, role |-> roleName]

\* `${role.RoleName} role already has policy ${policyArn} applied, skipping.`
SkipLine(arn, roleName) == Event("skip", arn, roleName)

\* `Adding ${policyArn} to existing ManagedPolicyArns policies for ${role.RoleName}.`
AddLine(arn, roleName) == Event("add", arn, roleName)

\* `Setting ${policyArn} as ManagedPolicyArn for ${role.RoleName}.`
SetLine(arn, roleName) == Event("set", arn, roleName)

\* `Updating managed policies for ${role.RoleName}...`
UpdatingLine(roleName) == Event("update", EmptyString, roleName)

\* `"${policy}" is not a valid policy ARN.`
NotValidError(arn) == [text |-> "is not a valid policy ARN.", arn |-> arn]

NoError == [text |-> "", arn |-> EmptyString]

Result(res, lg, threw, msg) == [resources |-> res, log |-> lg, threw |-> threw, errMsg |-> msg]

(* ===================== src/unnamed/part_000 ============================ *)

\* policiesArray(policies): [policies] for a string, policies for an array,
\* otherwise throws 'managedPolicyArns must be an array'
P0_policiesArray(policies) ==
    IF policies.kind = "string" THEN [threw |-> FALSE, value |-> policies.val]
    ELSE IF policies.kind = "array" THEN [threw |-> FALSE, value |-> policies.val]
    ELSE [threw |-> TRUE, value |-> <<>>]

P0_MustBeArrayError == [text |-> "managedPolicyArns must be an array", arn |-> EmptyString]

\* a variant of P0_applyPolicy whose last branch logs the "Adding" line
\* instead of the "Setting" line
P0_applyPolicy_logsAdding(policyArn, st) ==
    IF st.threw THEN st
    ELSE IF ~MatchesArn(policyArn)
    THEN [st EXCEPT !.threw = TRUE, !.errMsg = NotValidError(policyArn)]
    ELSE IF st.role.hasArns /\ indexOf(st.role.ManagedPolicyArns, policyArn) # 0
    THEN [st EXCEPT !.log = Append(@, SkipLine(policyArn, st.role.RoleName))]
    ELSE IF st.role.hasArns
    THEN [st EXCEPT !.log = Append(@, AddLine(policyArn, st.role.RoleName)),
                    !.role.ManagedPolicyArns = @ \o <<policyArn>>]
    ELSE [st EXCEPT !.log = Append(@, AddLine(policyArn, st.role.RoleName)),
                    !.role.hasArns = TRUE,
                    !.role.ManagedPolicyArns = <<policyArn>>]

\* the body of policies.forEach((policyArn) => ...) on the role being
\* mutated in place; st carries the role, the log and a pending exception
P0_applyPolicy(policyArn, st) ==
    IF st.threw THEN st
    ELSE IF ~MatchesArn(policyArn)
    THEN [st EXCEPT !.threw = TRUE, !.errMsg = NotValidError(policyArn)]
    ELSE IF st.role.hasArns /\ indexOf(st.role.ManagedPolicyArns, policyArn) # 0
    THEN [st EXCEPT !.log = Append(@, SkipLine(policyArn, st.role.RoleName))]
    ELSE IF st.role.hasArns
    THEN [st EXCEPT !.log = Append(@, AddLine(policyArn, st.role.RoleName)),
                    !.role.ManagedPolicyArns = @ \o <<policyArn>>]
    ELSE [st EXCEPT !.log = Append(@, SetLine(policyArn, st.role.RoleName)),
                    !.role.hasArns = TRUE,
                    !.role.ManagedPolicyArns = <<policyArn>>]

RECURSIVE P0_forEachPolicy(_, _, _)
P0_forEachPolicy(policies, k, st) ==
    IF k > Len(policies) THEN st
    ELSE P0_forEachPolicy(policies, k + 1, P0_applyPolicy(policies[k], st))

\* applyPoliciesToRole(policies, role)
P0_applyPoliciesToRole(policies, role, lg) ==
    P0_forEachPolicy(policies, 1,
        [role |-> role, log |-> lg, threw |-> FALSE, errMsg |-> NoError])

\* a variant of P0_roleKeys that keeps only the first role found
P0_roleKeys_firstOnly(entries) ==
    LET roles == {k \in 1..Len(entries) : entries[k].Type = RoleType}
    IN  IF roles = {} THEN <<>>
        ELSE <<CHOOSE k \in roles : \A m \in roles : k <= m>>

\* Object.keys(resources).filter(name => resources[name].Type === 'AWS::IAM::Role')
P0_roleKeys(entries) ==
    LET F[k \in 0..Len(entries)] ==
            IF k = 0 THEN <<>>
            ELSE IF entries[k].Type = RoleType THEN Append(F[k - 1], k) ELSE F[k - 1]
    IN  F[Len(entries)]

\* the arrow function given to .forEach(roleResource => ...): evaluates
\* this.policiesArray(policies), then applyPoliciesToRole on the Properties
P0_applyToResource(policies, key, r) ==
    IF r.threw THEN r
    ELSE LET pa == P0_policiesArray(policies) IN
         IF pa.threw THEN Result(r.resources, r.log, TRUE, P0_MustBeArrayError)
         ELSE LET st == P0_applyPoliciesToRole(pa.value, r.resources.entries[key], r.log) IN
              Result([r.resources EXCEPT !.entries[key] = st.role], st.log, st.threw, st.errMsg)

RECURSIVE P0_forEachRole(_, _, _, _)
P0_forEachRole(policies, keys, k, r) ==
    IF k > Len(keys) THEN r
    ELSE P0_forEachRole(policies, keys, k + 1, P0_applyToResource(policies, keys[k], r))

\* a variant of P0_bail without the second early return
P0_bail_configOnly(policies, res) == ~Truthy(policies)

\* the two early returns of attachManagedPolicy
P0_bail(policies, res) == ~Truthy(policies) \/ ~res.present

P0_StartLines == <<Line("Adding managed policies..."), Line("Searching for roles...")>>

P0_DoneLine == Line("Managed policy done.")

\* attachManagedPolicy(): what one invocation leaves behind
P0_attachManagedPolicy(policies, res) ==
    IF P0_bail(policies, res) THEN Result(res, <<>>, FALSE, NoError)
    ELSE LET r == P0_forEachRole(policies, P0_roleKeys(res.entries), 1,
                                 Result(res, P0_StartLines, FALSE, NoError))
         IN  IF r.threw THEN r
             ELSE Result(r.resources, Append(r.log, P0_DoneLine), FALSE, NoError)

(* ========================= src/lib/index.js ============================ *)

Lib_MustBeArrayError ==
    [text |-> "managedPolicyArns must be a single policy ARN or an array of them",
     arn |-> EmptyString]

\* verifyConfig(): sets this.policiesArray, throws on the first element that
\* does not match
Lib_verifyConfig(policies) ==
    IF ~Truthy(policies) THEN [threw |-> FALSE, errMsg |-> NoError, policiesArray |-> <<>>]
    ELSE IF policies.kind \notin {"string", "array"}
    THEN [threw |-> TRUE, errMsg |-> Lib_MustBeArrayError, policiesArray |-> <<>>]
    ELSE LET arr == policies.val
             bad == {k \in 1..Len(arr) : ~MatchesArn(arr[k])}
         IN  IF bad = {}
             THEN [threw |-> FALSE, errMsg |-> NoError, policiesArray |-> arr]
             ELSE LET first == CHOOSE k \in bad : \A m \in bad : k <= m
                  IN  [threw |-> TRUE, errMsg |-> NotValidError(arr[first]),
                       policiesArray |-> arr]

\* a variant of Lib_mergedArns without the .filter(...)
Lib_mergedArns_noFilter(policies, role) ==
    policies \o (IF role.hasArns THEN role.ManagedPolicyArns ELSE <<>>)

\* policies.concat(role.ManagedPolicyArns || []).filter(first occurrence)
Lib_mergedArns(policies, role) ==
    filterFirst(policies \o (IF role.hasArns THEN role.ManagedPolicyArns ELSE <<>>), 1)

\* applyPoliciesToRole(policies, role)
Lib_applyPoliciesToRole(policies, role, lg) ==
    [role |-> [role EXCEPT !.hasArns = TRUE,
                           !.ManagedPolicyArns = Lib_mergedArns(policies, role)],
     log |-> Append(lg, UpdatingLine(role.RoleName))]

\* a variant of Lib_roleKeys without the .filter(...) on Type
Lib_roleKeys_all(entries) == [k \in 1..Len(entries) |-> k]

\* Object.keys(resources).filter(name => resources[name].Type === 'AWS::IAM::Role')
Lib_roleKeys(entries) ==
    LET F[k \in 0..Len(entries)] ==
            IF k = 0 THEN <<>>
            ELSE IF entries[k].Type = RoleType THEN Append(F[k - 1], k) ELSE F[k - 1]
    IN  F[Len(entries)]

RECURSIVE Lib_forEachRole(_, _, _, _)
Lib_forEachRole(policies, keys, k, r) ==
    IF k > Len(keys) THEN r
    ELSE LET st == Lib_applyPoliciesToRole(policies, r.resources.entries[keys[k]], r.log)
         IN  Lib_forEachRole(policies, keys, k + 1,
                 Result([r.resources EXCEPT !.entries[keys[k]] = st.role],
                        st.log, FALSE, NoError))

\* the two early returns of attachManagedPolicy
Lib_bail(policies, res) == ~Truthy(policies) \/ ~res.present

Lib_BeginLine == Line("Begin Attach Managed Policies plugin...")

Lib_DoneLine == Line("Attach Managed Policies plugin done.")

\* attachManagedPolicy(): what one invocation leaves behind
Lib_attachManagedPolicy(policies, res) ==
    IF Lib_bail(policies, res) THEN Result(res, <<>>, FALSE, NoError)
    ELSE LET v == Lib_verifyConfig(policies) IN
         IF v.threw THEN Result(res, <<>>, TRUE, v.errMsg)
         ELSE LET r == Lib_forEachRole(v.policiesArray, Lib_roleKeys(res.entries), 1,
                                       Result(res, <<Lib_BeginLine>>, FALSE, NoError))
              IN  Result(r.resources, Append(r.log, Lib_DoneLine), FALSE, NoError)

(* ========================= the state machine =========================== *)

Revisions == {"part_000", "lib"}

\* a plugin instance of either revision, constructed on a host whose
\* configuration and compiled template are any of the inputs; nothing has
\* run yet
Init ==
    /\ rev \in Revisions
    /\ config \in ConfigValues
    /\ resources \in ResourceCollections
    /\ log = <<>>
    /\ status = "idle"
    /\ errMsg = NoError
    /\ calls = 0
    /\ pre = resources
    /\ prevStatus = "idle"

\* the host fires before:deploy:deploy; log holds the lines of this
\* invocation, pre the collection as it was when the invocation began
Invoke(r) ==
    /\ calls < MaxCalls
    /\ calls' = calls + 1
    /\ pre' = resources
    /\ prevStatus' = status
    /\ resources' = r.resources
    /\ log' = r.log
    /\ status' = IF r.threw THEN "threw" ELSE "returned"
    /\ errMsg' = r.errMsg
    /\ UNCHANGED <<rev, config>>

P0_Hook ==
    /\ rev = "part_000"
    /\ Invoke(P0_attachManagedPolicy(config, resources))

Lib_Hook ==
    /\ rev = "lib"
    /\ Invoke(Lib_attachManagedPolicy(config, resources))

Next == P0_Hook \/ Lib_Hook

Spec == Init /\ [][Next]_vars

(* ============================ the claims =============================== *)

\* the configured identifiers as the sequence the hook walks
Configured == IF config.kind \in {"string", "array"} /\ Truthy(config) THEN config.val ELSE <<>>

ConfigPresent == Truthy(config)

ConfigValid ==
    /\ config.kind \in {"string", "array"}
    /\ \A k \in 1..Len(config.val) : MatchesArn(config.val[k])

Returned == calls >= 1 /\ status = "returned"

Threw == calls >= 1 /\ status = "threw"

Elems(s) == {s[k] : k \in 1..Len(s)}

NoRepeat(s) == \A a, b \in 1..Len(s) : s[a] = s[b] => a = b

\* the positions of the role resources, in key order
RolesOf(res) == {k \in 1..Len(res.entries) : res.entries[k].Type = RoleType}

RoleSeq(res) ==
    LET F[k \in 0..Len(res.entries)] ==
            IF k = 0 THEN <<>>
            ELSE IF k \in RolesOf(res) THEN Append(F[k - 1], k) ELSE F[k - 1]
    IN  F[Len(res.entries)]

\* s without the elements of drop and without repeats, first occurrences kept
RECURSIVE Fresh(_, _)
Fresh(s, drop) ==
    IF s = <<>> THEN <<>>
    ELSE IF Head(s) \in drop THEN Fresh(Tail(s), drop)
         ELSE <<Head(s)>> \o Fresh(Tail(s), drop \cup {Head(s)})

\* the lines of this invocation that name role k
RECURSIVE LinesOf(_, _)
LinesOf(lg, k) ==
    IF lg = <<>> THEN <<>>
    ELSE IF Head(lg).role = k THEN <<Head(lg)>> \o LinesOf(Tail(lg), k)
         ELSE LinesOf(Tail(lg), k)

StartLines == IF rev = "part_000" THEN P0_StartLines ELSE <<Lib_BeginLine>>

DoneLine == IF rev = "part_000" THEN P0_DoneLine ELSE Lib_DoneLine

\* C1: whenever attach raises an error, the resource collection is exactly
\* what it was before the call.
C1_AtomicOnError == Threw => resources = pre

\* C2: a present configuration that is neither string nor array, or that
\* holds an element not matching the ARN pattern, makes attach raise, for
\* every present resource collection (also one without any role).
C2_InvalidRejected ==
    (calls >= 1 /\ ConfigPresent /\ pre.present /\ ~ConfigValid) => status = "threw"

\* C3 as stated: configuration absent, or collection absent or without
\* entries, means no log line and no change.
C3_NoOpAsStated ==
    (calls >= 1 /\ (~ConfigPresent \/ ~pre.present \/ pre.entries = <<>>))
        => (log = <<>> /\ resources = pre)

\* C3 (amended): configuration absent or collection absent means no log
\* line, no change and a normal return; a present collection without entries
\* is never changed, but with a present configuration a returning attach has
\* logged exactly its start-of-run line(s) and its end-of-run line.
C3_NoOp ==
    calls >= 1 =>
        /\ (~ConfigPresent \/ ~pre.present)
               => (log = <<>> /\ resources = pre /\ status = "returned")
        /\ (pre.present /\ pre.entries = <<>>)
               => /\ resources = pre
                  /\ (ConfigPresent /\ status = "returned") => log = Append(StartLines, DoneLine)

C3_Witness ==
    /\ calls = 1
    /\ config.kind = "null"
    /\ \E k \in RolesOf(pre) : ~pre.entries[k].hasArns

\* C4: a role's list that existed before a successful attach is afterwards
\* that list, unchanged, followed by the configured identifiers it did not
\* hold, in configuration order.
C4_MergeOrder ==
    Returned =>
        \A k \in RolesOf(pre) :
            pre.entries[k].hasArns =>
                resources.entries[k].ManagedPolicyArns =
                    pre.entries[k].ManagedPolicyArns
                        \o Fresh(Configured, Elems(pre.entries[k].ManagedPolicyArns))

\* C5: after two invocations in a row with the same valid configuration, no
\* role's list holds an identifier twice.
C5_NoDuplicates ==
    (calls >= 2 /\ status = "returned" /\ prevStatus = "returned" /\ ConfigValid) =>
        \A k \in RolesOf(resources) : NoRepeat(resources.entries[k].ManagedPolicyArns)

C8_LogOrder ==
    (Returned /\ ConfigPresent /\ pre.present) =>
        LET keys == RoleSeq(pre)
            n == Len(Configured)
            s == Len(StartLines)
        IN  /\ Len(log) = s + Len(keys) * n + 1
            /\ SubSeq(log, 1, s) = StartLines
            /\ log[Len(log)] = DoneLine
            /\ \A r \in 1..Len(keys) : \A i \in 1..n :
                   LET e == log[s + (r - 1) * n + i]
                       role == pre.entries[keys[r]]
                       held == \/ role.hasArns /\ Configured[i] \in Elems(role.ManagedPolicyArns)
                               \/ \E m \in 1..(i - 1) : Configured[m] = Configured[i]
                   IN  /\ e.role = role.RoleName
                       /\ e.arn = Configured[i]
                       /\ e.kind \in {"set", "add", "skip"}
                       /\ e.kind = "skip" <=> held

C10_Fixpoint ==
    (calls >= 2 /\ status = "returned" /\ prevStatus = "returned") =>
        /\ resources = pre
        /\ \A i \in 1..Len(log) : log[i].kind \notin {"set", "add"}

C10_Witness ==
    /\ calls = 2 /\ status = "returned" /\ prevStatus = "returned"
    /\ Len(Configured) = 2 /\ NoRepeat(Configured)
    /\ \E k \in RolesOf(resources) :
           Len(resources.entries[k].ManagedPolicyArns) = 2
    /\ \E i \in 1..Len(log) : log[i].kind \in {"skip", "update"}

====
